---- MODULE Spec2Model ----
(***************************************************************************)
(* A model of js-tanks-3d/audio/abc_to_ogg.py: the ABC notation parser     *)
(* (parse_chord, parse_voice_content, parse_abc_file), the track renderer  *)
(* (generate_voice_track and the generate_*_tone synthesizers) and the     *)
(* mixer / mastering stage of convert_abc_to_ogg.                          *)
(*                                                                         *)
(* Representation.                                                         *)
(*  - A Python str is a sequence of one-character strings.                 *)
(*  - A file is a header (the Q: and L: tags, when present) followed by    *)
(*    lines; a line is a record [tag, id, name, body]: tag "V" is a line   *)
(*    `V:<id>[ name="<name>"]<body>`, tag "K" a line `K:<body>`, tag "N" a *)
(*    line `<body>`. Every line but possibly the last ends in a newline.   *)
(*  - A beat count or a duration in seconds is an exact rational           *)
(*    [num, den]; the input tags of the model are such that the binary     *)
(*    floating-point values of the program are these rationals exactly.   *)
(*  - A numpy sample buffer is a run-length list of [n, v]: n consecutive  *)
(*    samples of value v. A track counts v in thousandths of full scale;   *)
(*    the mix is [den, runs], its samples being v / den exactly. What a    *)
(*    synthesizer writes (sines, noise) is abstracted to one level per     *)
(*    track, drawn from Levels; the silent paths give exactly 0.           *)
(***************************************************************************)
EXTENDS Integers, Sequences, FiniteSets, TLC

VARIABLES
    pc,          \* position of the run
    err,         \* the exception that ended the run ("" when none)
    content,     \* convert_abc_to_ogg: the file (name and text)
    voices,      \* parse_abc_file: voice number -> [name, notes]
    tempo,       \* parse_abc_file: tempo
    tracks,      \* convert_abc_to_ogg: the rendered tracks
    tones,       \* generate_voice_track: the tone of each item, last call
    mixed,       \* convert_abc_to_ogg: the mix, [den, runs]
    mix_levels,  \* convert_abc_to_ogg: the gain table selected
    max_val,     \* convert_abc_to_ogg: peak found by the normalizer
    audio_16bit, \* convert_abc_to_ogg: the quantized buffer
    vc_in,       \* parse_voice_content alone: its arguments
    vc_out,      \* parse_voice_content alone: its result
    nm_in,       \* voice type selection alone: the voice name
    nm_out       \* voice type selection alone: the type chosen

vars == <<pc, err, content, voices, tempo, tracks, tones, mixed, mix_levels,
          max_val, audio_16bit, vc_in, vc_out, nm_in, nm_out>>

-----------------------------------------------------------------------------
(* Bounds of the model.                                                    *)

\* longest notation text drawn for parse_voice_content alone
MaxContentLen == 4
\* most lines after the header of a drawn file
MaxLines == 3
\* most voice blocks of a drawn multi-voice file
MaxVoices == 6
\* most words of a drawn voice name
MaxWords == 2

-----------------------------------------------------------------------------
(* Strings.                                                                *)

Digits == {"0", "1", "2", "3", "4", "5", "6", "7", "8", "9"}

DigitVal ==
    ("0" :> 0) @@ ("1" :> 1) @@ ("2" :> 2) @@ ("3" :> 3) @@ ("4" :> 4) @@
    ("5" :> 5) @@ ("6" :> 6) @@ ("7" :> 7) @@ ("8" :> 8) @@ ("9" :> 9)

\* int(s) of a string of decimal digits
RECURSIVE int(_)
int(s) ==
    IF s = <<>> THEN 0
    ELSE int(SubSeq(s, 1, Len(s) - 1)) * 10 + DigitVal[s[Len(s)]]

UpperToLower ==
    [A |-> "a", B |-> "b", C |-> "c", D |-> "d", E |-> "e", F |-> "f",
     G |-> "g", H |-> "h", I |-> "i", J |-> "j", K |-> "k", L |-> "l",
     M |-> "m", N |-> "n", O |-> "o", P |-> "p", Q |-> "q", R |-> "r",
     S |-> "s", T |-> "t", U |-> "u", V |-> "v", W |-> "w", X |-> "x",
     Y |-> "y", Z |-> "z"]

\* str.lower()
lower(s) ==
    [i \in 1..Len(s) |->
        IF s[i] \in DOMAIN UpperToLower THEN UpperToLower[s[i]] ELSE s[i]]

\* `sub in s` of two strings
Contains(sub, s) ==
    \E i \in 0..(Len(s) - Len(sub)) : SubSeq(s, i + 1, i + Len(sub)) = sub

\* the end of the longest run s[i..j] of characters of `set` (i - 1: none)
RECURSIVE SpanEnd(_, _, _)
SpanEnd(s, i, set) ==
    IF i <= Len(s) /\ s[i] \in set THEN SpanEnd(s, i + 1, set) ELSE i - 1

\* the first j >= i with s[j] = c (0: none)
RECURSIVE IndexFrom(_, _, _)
IndexFrom(s, i, c) ==
    IF i > Len(s) THEN 0
    ELSE IF s[i] = c THEN i
    ELSE IndexFrom(s, i + 1, c)

RECURSIVE Concat(_)
Concat(ss) == IF ss = <<>> THEN <<>> ELSE Head(ss) \o Concat(Tail(ss))

-----------------------------------------------------------------------------
(* NOTES: the pitch table, in hundredths of a hertz.                       *)

NOTES ==
    (<<"A", ",", ",">> :> 5500) @@ (<<"B", ",", ",">> :> 6174) @@
    (<<"C", ",", ",">> :> 6541) @@ (<<"D", ",", ",">> :> 7342) @@
    (<<"E", ",", ",">> :> 8241) @@ (<<"F", ",", ",">> :> 8731) @@
    (<<"G", ",", ",">> :> 9800) @@
    (<<"C", ",">> :> 13081) @@ (<<"D", ",">> :> 14683) @@
    (<<"E", ",">> :> 16481) @@ (<<"F", ",">> :> 17461) @@
    (<<"G", ",">> :> 19600) @@ (<<"A", ",">> :> 22000) @@
    (<<"B", ",">> :> 24694) @@
    (<<"C">> :> 26163) @@ (<<"D">> :> 29366) @@ (<<"E">> :> 32963) @@
    (<<"F">> :> 34923) @@ (<<"G">> :> 39200) @@ (<<"A">> :> 44000) @@
    (<<"B">> :> 49388) @@
    (<<"c">> :> 52325) @@ (<<"d">> :> 58733) @@ (<<"e">> :> 65925) @@
    (<<"f">> :> 69846) @@ (<<"g">> :> 78399) @@ (<<"a">> :> 88000) @@
    (<<"b">> :> 98777) @@
    (<<"c", "'">> :> 104650) @@ (<<"d", "'">> :> 117466) @@
    (<<"e", "'">> :> 131851) @@ (<<"f", "'">> :> 139691) @@
    (<<"g", "'">> :> 156798) @@ (<<"a", "'">> :> 176000) @@
    (<<"b", "'">> :> 197553) @@
    (<<"z">> :> 0) @@
    (<<"x">> :> 20000)

-----------------------------------------------------------------------------
(* parse_chord.                                                            *)

\* str.strip('[]')
RECURSIVE LStrip(_)
LStrip(s) ==
    IF s # <<>> /\ s[1] \in {"[", "]"} THEN LStrip(Tail(s)) ELSE s

RECURSIVE RStrip(_)
RStrip(s) ==
    IF s # <<>> /\ s[Len(s)] \in {"[", "]"}
    THEN RStrip(SubSeq(s, 1, Len(s) - 1))
    ELSE s

\* the while loop of parse_chord, from index i (1-based)
RECURSIVE parse_chord_loop(_, _)
parse_chord_loop(chord_str, i) ==
    IF i > Len(chord_str) THEN <<>>
    ELSE IF i < Len(chord_str) /\ chord_str[i + 1] \in {",", "'"}
         THEN <<SubSeq(chord_str, i, i + 1)>> \o parse_chord_loop(chord_str, i + 2)
         ELSE <<SubSeq(chord_str, i, i)>> \o parse_chord_loop(chord_str, i + 1)

parse_chord(chord_str) == parse_chord_loop(RStrip(LStrip(chord_str)), 1)

-----------------------------------------------------------------------------
(* parse_voice_content.                                                    *)

\* re.sub(r'%.*', '', content): a comment runs to the end of its line
RECURSIVE RemoveComments(_, _)
RemoveComments(s, inComment) ==
    IF s = <<>> THEN <<>>
    ELSE IF inComment
         THEN IF Head(s) = "\n"
              THEN <<"\n">> \o RemoveComments(Tail(s), FALSE)
              ELSE RemoveComments(Tail(s), TRUE)
         ELSE IF Head(s) = "%"
              THEN RemoveComments(Tail(s), TRUE)
              ELSE <<Head(s)>> \o RemoveComments(Tail(s), FALSE)

\* re.sub(r'[\|:]', ' ', content)
RemoveBarLines(s) ==
    [i \in 1..Len(s) |-> IF s[i] \in {"|", ":"} THEN " " ELSE s[i]]

\* [A-Ga-gx]
NoteLetters ==
    {"A", "B", "C", "D", "E", "F", "G", "a", "b", "c", "d", "e", "f", "g", "x"}

\* Where group 1 of the pattern, (\[[^\]]+\]|[A-Ga-gx][,\']*|z), ends when
\* matched at i (0: no match at i).
Group1End(s, i) ==
    IF s[i] = "["
    THEN LET j == IndexFrom(s, i + 1, "]")
         IN  IF j >= i + 2 THEN j ELSE 0
    ELSE IF s[i] \in NoteLetters THEN SpanEnd(s, i + 1, {",", "'"})
    ELSE IF s[i] = "z" THEN i
    ELSE 0

\* re.finditer(pattern, content) from index i: the matches, left to right,
\* each [note_or_chord |-> group 1, duration |-> group 2]
RECURSIVE finditer(_, _)
finditer(s, i) ==
    IF i > Len(s) THEN <<>>
    ELSE LET e == Group1End(s, i)
         IN  IF e = 0 THEN finditer(s, i + 1)
             ELSE LET d == SpanEnd(s, e + 1, Digits)
                  IN  <<[note_or_chord |-> SubSeq(s, i, e),
                         duration |-> SubSeq(s, e + 1, d)]>>
                      \o finditer(s, d + 1)

\* dur * (4.0 / base_length), base_length # 0
BeatDuration(duration, base_length) ==
    [num |-> (IF duration # <<>> THEN int(duration) ELSE 1) * 4,
     den |-> base_length]

\* the body of the for loop: what one match appends to notes
Classify(m, base_length) ==
    LET note_or_chord == m.note_or_chord
        beat_duration == BeatDuration(m.duration, base_length)
    IN  IF note_or_chord[1] = "["
        THEN <<[type |-> "chord", notes |-> parse_chord(note_or_chord),
                beats |-> beat_duration]>>
        ELSE IF note_or_chord \in DOMAIN NOTES
        THEN <<[type |-> "note", sym |-> note_or_chord, beats |-> beat_duration]>>
        ELSE IF note_or_chord = <<"z">>
        THEN <<[type |-> "rest", sym |-> <<"z">>, beats |-> beat_duration]>>
        ELSE <<>>

\* parse_voice_content: [raised, notes]. 4.0 / base_length raises
\* ZeroDivisionError at the first match when base_length is 0.
parse_voice_content(text, base_length) ==
    LET matches == finditer(RemoveBarLines(RemoveComments(text, FALSE)), 1)
    IN  IF matches # <<>> /\ base_length = 0
        THEN [raised |-> TRUE, notes |-> <<>>]
        ELSE [raised |-> FALSE,
              notes |-> Concat([k \in 1..Len(matches) |->
                                   Classify(matches[k], base_length)])]

-----------------------------------------------------------------------------
(* The text of a file.                                                     *)

Quote == "\""

\* the characters of one line, without its newline
LineText(line) ==
    IF line.tag = "V"
    THEN <<"V", ":">> \o line.id
         \o (IF line.name # <<>>
             THEN <<" ", "n", "a", "m", "e", "=", Quote>> \o line.name \o <<Quote>>
             ELSE <<>>)
         \o line.body
    ELSE IF line.tag = "K" THEN <<"K", ":">> \o line.body
    ELSE line.body

\* whether line i of the text ends in a newline
Terminated(text, i) == i < Len(text.lines) \/ text.eof_nl

\* the characters of lines a..b of the text, newlines included
LinesText(text, a, b) ==
    Concat([k \in 1..(b - a + 1) |->
               LineText(text.lines[a + k - 1])
               \o (IF Terminated(text, a + k - 1) THEN <<"\n">> ELSE <<>>)])

\* a line that matches V:(\d+)\s+name="([^"]+)"[^\n]*\n
IsVoiceHeader(text, i) ==
    /\ text.lines[i].tag = "V"
    /\ text.lines[i].name # <<>>
    /\ Terminated(text, i)

\* a line that matches (?!V:\d+).*\n
IsBodyLine(text, i) ==
    /\ text.lines[i].tag # "V"
    /\ Terminated(text, i)

\* the last line of ((?:(?!V:\d+).*\n)*) matched from line i (i - 1: no line)
RECURSIVE BodyEnd(_, _)
BodyEnd(text, i) ==
    IF i <= Len(text.lines) /\ IsBodyLine(text, i)
    THEN BodyEnd(text, i + 1)
    ELSE i - 1

\* re.findall(voice_pattern, content), scanning from line i
RECURSIVE findall_voices(_, _)
findall_voices(text, i) ==
    IF i > Len(text.lines) THEN <<>>
    ELSE IF IsVoiceHeader(text, i)
         THEN LET e == BodyEnd(text, i + 1)
              IN  <<[voice_num_str |-> text.lines[i].id,
                     voice_name |-> text.lines[i].name,
                     voice_content |-> LinesText(text, i + 1, e)]>>
                  \o findall_voices(text, e + 1)
         ELSE findall_voices(text, i + 1)

\* re.search(r'K:.*?\n(.*)', content, re.DOTALL): the line of the leftmost
\* K: when a newline follows it (0: no match)
RECURSIVE FirstKeyLine(_, _)
FirstKeyLine(text, i) ==
    IF i > Len(text.lines) THEN 0
    ELSE IF text.lines[i].tag = "K"
         THEN (IF Terminated(text, i) THEN i ELSE 0)
         ELSE FirstKeyLine(text, i + 1)

\* re.sub(r'V:\d+[^\n]*\n', '', melody_text) of lines a.. of the text
MelodyText(text, a) ==
    Concat([k \in 1..(Len(text.lines) - a + 1) |->
               LET i == a + k - 1
               IN  IF text.lines[i].tag = "V" /\ Terminated(text, i)
                   THEN <<>>
                   ELSE LinesText(text, i, i)])

-----------------------------------------------------------------------------
(* parse_abc_file.                                                         *)

\* the for loop over voice_matches: [raised, voices]
RECURSIVE ParseVoices(_, _, _)
ParseVoices(matches, base_length, acc) ==
    IF matches = <<>> THEN [raised |-> FALSE, voices |-> acc]
    ELSE LET m == Head(matches)
             r == parse_voice_content(m.voice_content, base_length)
         IN  IF r.raised THEN [raised |-> TRUE, voices |-> acc]
             ELSE ParseVoices(Tail(matches), base_length,
                      (int(m.voice_num_str) :>
                           [name |-> m.voice_name, notes |-> r.notes]) @@ acc)

Melody == <<"M", "e", "l", "o", "d", "y">>

\* the else branch: the single voice of a file without voice blocks
ParseSingleVoice(text, base_length) ==
    LET k == FirstKeyLine(text, 1)
        r == IF k = 0 THEN [raised |-> FALSE, notes |-> <<>>]
             ELSE parse_voice_content(MelodyText(text, k + 1), base_length)
    IN  [raised |-> r.raised,
         voices |-> (1 :> [name |-> Melody, notes |-> r.notes])]

\* parse_abc_file: [raised, voices, tempo]
parse_abc_file(text) ==
    LET tempo_ == IF text.Q # <<>> THEN int(text.Q) ELSE 120
        base_length == IF text.L # <<>> THEN int(text.L) ELSE 8
        voice_matches == findall_voices(text, 1)
        r == IF voice_matches # <<>>
             THEN ParseVoices(voice_matches, base_length, <<>>)
             ELSE ParseSingleVoice(text, base_length)
    IN  [raised |-> r.raised, voices |-> r.voices, tempo |-> tempo_]

-----------------------------------------------------------------------------
(* Sample buffers: run-length lists of [n, v].                             *)

sample_rate == 44100

\* the units of a track sample in 1.0
TrackDen == 10 * 100

Abs(x) == IF x < 0 THEN -x ELSE x

Min(a, b) == IF a <= b THEN a ELSE b

\* n samples of value v
Const(n, v) == IF n > 0 THEN <<[n |-> n, v |-> v]>> ELSE <<>>

\* np.zeros(n)
Zeros(n) == Const(n, 0)

\* len(buf)
RECURSIVE BufLen(_)
BufLen(buf) == IF buf = <<>> THEN 0 ELSE Head(buf).n + BufLen(Tail(buf))

\* buf[k:], 0 <= k <= len(buf)
RECURSIVE Drop(_, _)
Drop(buf, k) ==
    IF k = 0 \/ buf = <<>> THEN buf
    ELSE IF Head(buf).n <= k THEN Drop(Tail(buf), k - Head(buf).n)
    ELSE <<[n |-> Head(buf).n - k, v |-> Head(buf).v]>> \o Tail(buf)

\* buf[:k], 0 <= k <= len(buf)
RECURSIVE Take(_, _)
Take(buf, k) ==
    IF k = 0 \/ buf = <<>> THEN <<>>
    ELSE IF Head(buf).n <= k
         THEN <<Head(buf)>> \o Take(Tail(buf), k - Head(buf).n)
         ELSE <<[n |-> k, v |-> Head(buf).v]>>

\* buf * c, sample by sample
Times(buf, c) == [k \in 1..Len(buf) |-> [n |-> buf[k].n, v |-> buf[k].v * c]]

\* a + b, sample by sample, of two buffers of one length
RECURSIVE Add(_, _)
Add(a, b) ==
    IF a = <<>> \/ b = <<>> THEN <<>>
    ELSE LET k == Min(Head(a).n, Head(b).n)
         IN  <<[n |-> k, v |-> Head(a).v + Head(b).v]>>
             \o Add(Drop(a, k), Drop(b, k))

\* np.max(np.abs(buf)) of a buffer that is not empty
Peak(buf) ==
    LET vals == {Abs(buf[k].v) : k \in 1..Len(buf)}
    IN  CHOOSE m \in vals : \A x \in vals : x <= m

\* the sample at index i (1-based)
RECURSIVE At(_, _)
At(buf, i) == IF i <= Head(buf).n THEN Head(buf).v ELSE At(Tail(buf), i - Head(buf).n)

-----------------------------------------------------------------------------
(* The synthesizers. `duration` is in seconds, [num, den]; `w` is the      *)
(* level the waveform is abstracted to.                                    *)

\* int(sample_rate * duration)
NumSamples(duration) == (sample_rate * duration.num) \div duration.den

generate_tone(frequency, duration, w) ==
    IF frequency = 0 THEN Zeros(NumSamples(duration))
    ELSE Const(NumSamples(duration), w)

\* the for loop of generate_chord_tone over chord_notes
RECURSIVE ChordSum(_, _, _, _)
ChordSum(chord_sound, chord_notes, duration, w) ==
    IF chord_notes = <<>> THEN chord_sound
    ELSE ChordSum(IF Head(chord_notes) \in DOMAIN NOTES
                  THEN Add(chord_sound,
                           generate_tone(NOTES[Head(chord_notes)], duration, w))
                  ELSE chord_sound,
                  Tail(chord_notes), duration, w)

generate_chord_tone(chord_notes, duration, w) ==
    ChordSum(Zeros(NumSamples(duration)), chord_notes, duration, w)

generate_timpani_tone(frequency, duration, w) ==
    IF frequency = 0 THEN Zeros(NumSamples(duration))
    ELSE Const(NumSamples(duration), w)

generate_explosion_tone(frequency, duration, w) ==
    IF frequency = 0 THEN Zeros(NumSamples(duration))
    ELSE Const(NumSamples(duration), w)

generate_gunshot_tone(frequency, duration, w) ==
    IF frequency = 0 THEN Zeros(NumSamples(duration))
    ELSE Const(NumSamples(duration), w)

generate_snare_tone(duration, w) == Const(NumSamples(duration), w)

-----------------------------------------------------------------------------
(* generate_voice_track.                                                   *)

\* the duration with 30 seconds to the minute
ItemDuration_HalfMinute(item, tempo_) ==
    [num |-> item.beats.num * 30, den |-> item.beats.den * tempo_]

\* item[2] * beat_duration, beat_duration = 60.0 / tempo, tempo # 0
ItemDuration(item, tempo_) ==
    [num |-> item.beats.num * 60, den |-> item.beats.den * tempo_]

\* the body of the for loop: the tone of one item
ItemTone(item, tempo_, voice_type, w) ==
    LET duration == ItemDuration(item, tempo_)
    IN  IF item.type = "chord"
        THEN generate_chord_tone(item.notes, duration, w)
        ELSE IF item.type = "note"
        THEN LET note == item.sym
                 frequency == IF note \in DOMAIN NOTES THEN NOTES[note] ELSE 0
             IN  IF note = <<"x">> THEN generate_snare_tone(duration, w)
                 ELSE IF voice_type = "melody" THEN generate_tone(frequency, duration, w)
                 ELSE IF voice_type = "bass" THEN generate_tone(frequency, duration, w)
                 ELSE IF voice_type = "timpani"
                      THEN generate_timpani_tone(frequency, duration, w)
                 ELSE IF voice_type = "snare" THEN Zeros(NumSamples(duration))
                 ELSE IF voice_type = "gunshot"
                      THEN generate_gunshot_tone(frequency, duration, w)
                 ELSE IF voice_type = "explosion"
                      THEN generate_explosion_tone(frequency, duration, w)
                 ELSE generate_tone(frequency, duration, w)
        ELSE Zeros(NumSamples(duration))

\* generate_voice_track: [raised, tones, track]. 60.0 / tempo raises
\* ZeroDivisionError when tempo is 0; track is the tones concatenated.
generate_voice_track(voice_data, tempo_, voice_type, w) ==
    IF tempo_ = 0 THEN [raised |-> TRUE, tones |-> <<>>, track |-> <<>>]
    ELSE LET ts == [k \in 1..Len(voice_data.notes) |->
                       ItemTone(voice_data.notes[k], tempo_, voice_type, w)]
         IN  [raised |-> FALSE, tones |-> ts, track |-> Concat(ts)]

-----------------------------------------------------------------------------
(* convert_abc_to_ogg: the voice type of a name.                           *)

kw_melody == <<"m", "e", "l", "o", "d", "y">>
kw_chord == <<"c", "h", "o", "r", "d">>
kw_bass == <<"b", "a", "s", "s">>
kw_timpani == <<"t", "i", "m", "p", "a", "n", "i">>
kw_percussion == <<"p", "e", "r", "c", "u", "s", "s", "i", "o", "n">>
kw_snare == <<"s", "n", "a", "r", "e">>
kw_fire == <<"f", "i", "r", "e">>
kw_impact == <<"i", "m", "p", "a", "c", "t">>
kw_metal == <<"m", "e", "t", "a", "l">>

\* the if / elif chain with the snare test moved before the bass test
VoiceType_SnareFirst(name) ==
    LET voice_name == lower(name)
    IN  IF Contains(kw_melody, voice_name) THEN "melody"
        ELSE IF Contains(kw_chord, voice_name) THEN "chords"
        ELSE IF Contains(kw_snare, voice_name) THEN "snare"
        ELSE IF Contains(kw_bass, voice_name) THEN "bass"
        ELSE IF Contains(kw_timpani, voice_name) \/ Contains(kw_percussion, voice_name)
             THEN "timpani"
        ELSE IF Contains(kw_fire, voice_name) THEN "gunshot"
        ELSE IF Contains(kw_impact, voice_name) \/ Contains(kw_metal, voice_name)
             THEN "explosion"
        ELSE "melody"

\* voice_name = voice_data['name'].lower() and the if / elif chain
VoiceType(name) ==
    LET voice_name == lower(name)
    IN  IF Contains(kw_melody, voice_name) THEN "melody"
        ELSE IF Contains(kw_chord, voice_name) THEN "chords"
        ELSE IF Contains(kw_bass, voice_name) THEN "bass"
        ELSE IF Contains(kw_timpani, voice_name) \/ Contains(kw_percussion, voice_name)
             THEN "timpani"
        ELSE IF Contains(kw_snare, voice_name) THEN "snare"
        ELSE IF Contains(kw_fire, voice_name) THEN "gunshot"
        ELSE IF Contains(kw_impact, voice_name) \/ Contains(kw_metal, voice_name)
             THEN "explosion"
        ELSE "melody"

\* the keys from the greatest to the least
RECURSIVE SortedKeys_Descending(_)
SortedKeys_Descending(S) ==
    IF S = {} THEN <<>>
    ELSE LET m == CHOOSE x \in S : \A y \in S : x >= y
         IN  <<m>> \o SortedKeys_Descending(S \ {m})

\* sorted(voices.keys())
RECURSIVE SortedKeys(_)
SortedKeys(S) ==
    IF S = {} THEN <<>>
    ELSE LET m == CHOOSE x \in S : \A y \in S : x <= y
         IN  <<m>> \o SortedKeys(S \ {m})

-----------------------------------------------------------------------------
(* convert_abc_to_ogg: pad, mix, reverb, normalize, quantize.              *)

\* a ValueError of np.max: the maximum of an empty array
EmptyMax(buf) == buf = <<>>

\* max_len and the np.pad loop
PadAll(ts) ==
    LET lens == {BufLen(ts[i]) : i \in 1..Len(ts)}
        max_len == CHOOSE m \in lens : \A x \in lens : x <= m
    IN  [i \in 1..Len(ts) |-> ts[i] \o Zeros(max_len - BufLen(ts[i]))]

\* the gain tables, in tenths
intense_levels == <<11, 7, 8, 6, 9>>
normal_levels == <<10, 6, 7, 5, 5>>

\* the default gain of a track beyond the table, in tenths
default_level == 5

\* the threshold 0.01 of has_snare, in the units of a track
snare_threshold == TrackDen \div 100

\* the snare test with the threshold itself counted as a snare
HasSnare_AtThreshold(ts) == Len(ts) >= 5 /\ Peak(ts[5]) >= snare_threshold

\* has_snare, when np.max does not raise
HasSnare(ts) == Len(ts) >= 5 /\ Peak(ts[5]) > snare_threshold

SelectLevels(ts) == IF HasSnare(ts) THEN intense_levels ELSE normal_levels

\* level = mix_levels[i] if i < len(mix_levels) else 0.5 (i is 1-based here)
LevelOf(levels, i) == IF i <= Len(levels) THEN levels[i] ELSE default_level

\* the loop mixed += track * level over tracks i.., levels in tenths
RECURSIVE MixLoop(_, _, _, _)
MixLoop(acc, ts, levels, i) ==
    IF i > Len(ts) THEN acc
    ELSE MixLoop(Add(acc, Times(ts[i], LevelOf(levels, i))), ts, levels, i + 1)

\* mixed = np.zeros(max_len), then the loop; the tracks are padded
MixDown(ts, levels) ==
    [den |-> TrackDen * 10, runs |-> MixLoop(Zeros(BufLen(ts[1])), ts, levels, 1)]

\* reverb_delay = int(0.03 * sample_rate)
reverb_delay == (3 * sample_rate) \div 100

\* reverb_decay = 0.15, in hundredths
reverb_decay == 15

\* the reverb: reverb[reverb_delay:] = mixed[:-reverb_delay] * reverb_decay,
\* mixed += reverb
AddReverb(m) ==
    [den |-> m.den * 100,
     runs |-> IF BufLen(m.runs) > reverb_delay
              THEN Add(Times(m.runs, 100),
                       Zeros(reverb_delay)
                       \o Times(Take(m.runs, BufLen(m.runs) - reverb_delay),
                                reverb_decay))
              ELSE Times(m.runs, 100)]

game_over == <<"g", "a", "m", "e", "_", "o", "v", "e", "r">>

\* the ceiling of the normalizer, in hundredths
Ceiling(abc_file) == IF Contains(game_over, lower(abc_file)) THEN 60 ELSE 85

\* mixed = mixed / max_val * ceiling, when max_val > 0
Normalized(m, peak, abc_file) ==
    IF peak > 0
    THEN [den |-> peak * 100, runs |-> Times(m.runs, Ceiling(abc_file))]
    ELSE m

\* [q, r] with a * c = q * d + r and 0 <= r < d, for 0 <= a <= d and c >= 0,
\* one binary digit of c at a time (the product a * c is never formed)
RECURSIVE MulDiv(_, _, _)
MulDiv(a, c, d) ==
    IF c = 0 THEN [q |-> 0, r |-> 0]
    ELSE LET h == MulDiv(a, c \div 2, d)
             t == 2 * h.r + (c % 2) * a
         IN  [q |-> 2 * h.q + t \div d, r |-> t % d]

\* np.int16(x * 32767) of x = v / den, -1 <= x <= 1: the cast of a float to
\* int16 truncates toward zero
ToInt16(v, den) ==
    IF v >= 0 THEN MulDiv(v, 32767, den).q ELSE -MulDiv(-v, 32767, den).q

\* np.int16(mixed * 32767)
Quantized(m) ==
    [k \in 1..Len(m.runs) |->
        [n |-> m.runs[k].n, v |-> ToInt16(m.runs[k].v, m.den)]]

-----------------------------------------------------------------------------
(* The inputs drawn.                                                       *)

\* all sequences over S of length at most n
SeqsUpTo(S, n) == UNION {[1..k -> S] : k \in 0..n}

\* the waveform levels drawn, in the units of a track: 0.02 either way and
\* 0.005, which a chord of two notes brings to 0.01, the snare threshold
Levels == {-20, 5, 20}

\* voice names
Bass == <<"B", "a", "s", "s">>
Chords == <<"C", "H", "O", "R", "D", "S">>
Timpani == <<"t", "i", "m", "p", "a", "n", "i">>
Percussion == <<"P", "e", "r", "c", "u", "s", "s", "i", "o", "n">>
Snare == <<"S", "n", "a", "r", "e">>
Fire == <<"F", "I", "R", "E">>
Impact == <<"I", "m", "p", "a", "c", "t">>
Metal == <<"m", "e", "t", "a", "l">>
Lead == <<"L", "e", "a", "d">>

Words == {Melody, Chords, Bass, Timpani, Percussion, Snare, Fire, Impact, Metal, Lead}

\* the words of ws joined by spaces
RECURSIVE Join(_)
Join(ws) ==
    IF ws = <<>> THEN <<>>
    ELSE IF Len(ws) = 1 THEN Head(ws)
    ELSE Head(ws) \o <<" ">> \o Join(Tail(ws))

Names == {Join(ws) : ws \in SeqsUpTo(Words, MaxWords) \ {<<>>}}

\* notation texts for parse_voice_content alone
Alphabet == {"C", "e", ",", "'", "[", "]", "z", "2", "0"}

Examples ==
    {<<"C", "D", "E", "F", "2", "z", "2">>,
     <<"[", "C", "E", "G", "]", "2">>,
     <<"[", "C", ",", ",", "E", "]">>,
     <<"[", "c", "'", "E", ",", "G", "]", "2">>,
     <<"|", ":", " ", "c", "'", "2", " ", ":", "|", " ", "%", " ", "a", "b", "\n", "x">>}

VoiceContents == SeqsUpTo(Alphabet, MaxContentLen) \cup Examples

BaseLengths == {4, 8}

\* lines
VLine(id, name, body) == [tag |-> "V", id |-> id, name |-> name, body |-> body]
KLine(body) == [tag |-> "K", id |-> <<>>, name |-> <<>>, body |-> body]
NLine(body) == [tag |-> "N", id |-> <<>>, name |-> <<>>, body |-> body]

Clef == <<" ", "c", "l", "e", "f", "=", "b", "a", "s", "s">>
Tune == <<"C", "D", "E", "F", "2", "z", "2">>
Triad == <<"[", "C", "E", "G", "]", "2">>
Repeat == <<"|", ":", " ", "c", "'", "2", " ", ":", "|", " ", "%", " ", "a", "b">>
Hits == <<"x", "[", "C", "E", "]", "C", "2">>

ParseLines ==
    {VLine(<<"1">>, Melody, <<>>), VLine(<<"2">>, Fire, <<>>),
     VLine(<<"3">>, <<>>, Clef), KLine(<<"C">>),
     NLine(Tune), NLine(Triad), NLine(Repeat)}

title_theme ==
    <<"t", "i", "t", "l", "e", "_", "t", "h", "e", "m", "e", ".", "a", "b", "c">>
game_over_theme ==
    <<"g", "a", "m", "e", "_", "o", "v", "e", "r", "_",
      "t", "h", "e", "m", "e", ".", "a", "b", "c">>
Game_Over == <<"G", "a", "m", "e", "_", "O", "v", "e", "r", ".", "a", "b", "c">>

FileNames == {title_theme, game_over_theme, Game_Over}

File(name, q, l, lines, nl) ==
    [name |-> name, text |-> [Q |-> q, L |-> l, lines |-> lines, eof_nl |-> nl]]

\* files without tags: every sequence of at most MaxLines lines
ParseFiles ==
    {File(title_theme, <<>>, <<>>, ls, nl) :
        ls \in SeqsUpTo(ParseLines, MaxLines), nl \in BOOLEAN}

\* files with tags: Q:1/4=<q> and L:1/<l>
QTags == {<<>>, <<"0">>, <<"3", "0", "7", "2", "0">>}
LTags == {<<>>, <<"0">>, <<"3", "2">>}

TagLines ==
    {<<VLine(<<"1">>, Melody, <<>>), NLine(Tune)>>,
     <<KLine(<<"C">>), NLine(Tune)>>,
     <<KLine(<<"C">>)>>,
     <<VLine(<<"1">>, Melody, <<>>), NLine(Tune),
       VLine(<<"2">>, Chords, <<>>), NLine(Triad)>>}

TagFiles ==
    {File(f, q, l, ls, TRUE) :
        f \in FileNames, q \in QTags, l \in LTags, ls \in TagLines}

\* multi-voice files: n voice blocks, numbered and named by position, with
\* one body line each
VoiceNames == <<Melody, Chords, Bass, Timpani, Snare, Impact, Fire, Lead>>
VoiceIds == <<"1", "2", "3", "4", "5", "6", "7", "8">>
MixBodies == {<<>>, <<"z">>, Hits}

MixLines(n, body) ==
    Concat([i \in 1..n |-> <<VLine(<<VoiceIds[i]>>, VoiceNames[i], <<>>), NLine(body)>>])

MixFiles ==
    {File(title_theme, q, <<>>, MixLines(n, b), TRUE) :
        q \in {<<>>, <<"3", "0", "7", "2", "0">>}, n \in 1..MaxVoices, b \in MixBodies}

\* files of two or three voice blocks whose ids are drawn in any order, equal
\* ids included; the blocks are named and filled by their place in the text
OrderIds == {<<"1">>, <<"2">>, <<"3">>, <<"0", "1">>}
OrderNames == <<Bass, Lead, Snare>>
OrderBodies == <<Tune, Triad, Hits>>

OrderLines(ids) ==
    Concat([i \in 1..Len(ids) |->
               <<VLine(ids[i], OrderNames[i], <<>>), NLine(OrderBodies[i])>>])

OrderFiles ==
    {File(title_theme, <<>>, <<>>, OrderLines(ids), TRUE) :
        ids \in UNION {[1..k -> OrderIds] : k \in {2, 3}}}

Files == ParseFiles \cup TagFiles \cup MixFiles \cup OrderFiles

-----------------------------------------------------------------------------
(* The run of convert_abc_to_ogg on one file.                              *)

NoMix == [den |-> 1, runs |-> <<>>]

Idle ==
    /\ vc_in = [text |-> <<>>, base_length |-> 8]
    /\ vc_out = [raised |-> FALSE, notes |-> <<>>]
    /\ nm_in = <<>>
    /\ nm_out = ""

Init ==
    /\ pc = "start"
    /\ err = ""
    /\ content \in Files
    /\ voices = <<>>
    /\ tempo = 0
    /\ tracks = <<>>
    /\ tones = <<>>
    /\ mixed = NoMix
    /\ mix_levels = <<>>
    /\ max_val = 0
    /\ audio_16bit = <<>>
    /\ Idle

Raise(e) ==
    /\ pc' = "error"
    /\ err' = e

\* voices, tempo = parse_abc_file(abc_file); the return on "not voices" is
\* never taken, parse_abc_file always returns one voice at least
ParseAbcFile ==
    /\ pc = "start"
    /\ LET r == parse_abc_file(content.text)
       IN  IF r.raised
           THEN /\ Raise("parse_voice_content: ZeroDivisionError")
                /\ UNCHANGED <<voices, tempo>>
           ELSE /\ pc' = "parsed"
                /\ voices' = r.voices
                /\ tempo' = r.tempo
                /\ UNCHANGED err
    /\ UNCHANGED <<content, tracks, tones, mixed, mix_levels, max_val,
                   audio_16bit, vc_in, vc_out, nm_in, nm_out>>

\* one pass of the loop over sorted(voices.keys())
GenerateVoiceTrack ==
    /\ pc = "parsed"
    /\ LET keys == SortedKeys(DOMAIN voices)
           i == Len(tracks) + 1
           voice_data == voices[keys[i]]
       IN  \E w \in Levels :
             LET r == generate_voice_track(voice_data, tempo,
                                           VoiceType(voice_data.name), w)
             IN  IF r.raised
                 THEN /\ Raise("generate_voice_track: ZeroDivisionError")
                      /\ UNCHANGED <<tracks, tones>>
                 ELSE /\ tracks' = Append(tracks, r.track)
                      /\ tones' = r.tones
                      /\ pc' = IF i = Len(keys) THEN "rendered" ELSE "parsed"
                      /\ UNCHANGED err
    /\ UNCHANGED <<content, voices, tempo, mixed, mix_levels, max_val,
                   audio_16bit, vc_in, vc_out, nm_in, nm_out>>

\* Ensure all tracks are same length
PadTracks ==
    /\ pc = "rendered"
    /\ tracks' = PadAll(tracks)
    /\ pc' = "padded"
    /\ UNCHANGED <<err, content, voices, tempo, tones, mixed, mix_levels,
                   max_val, audio_16bit, vc_in, vc_out, nm_in, nm_out>>

\* Mix tracks with appropriate levels
MixTracks ==
    /\ pc = "padded"
    /\ IF Len(tracks) >= 5 /\ EmptyMax(tracks[5])
       THEN /\ Raise("has_snare: ValueError")
            /\ UNCHANGED <<mixed, mix_levels>>
       ELSE /\ mix_levels' = SelectLevels(tracks)
            /\ mixed' = MixDown(tracks, SelectLevels(tracks))
            /\ pc' = "mixed"
            /\ UNCHANGED err
    /\ UNCHANGED <<content, voices, tempo, tracks, tones, max_val,
                   audio_16bit, vc_in, vc_out, nm_in, nm_out>>

\* Add subtle reverb for depth
Reverb ==
    /\ pc = "mixed"
    /\ mixed' = AddReverb(mixed)
    /\ pc' = "reverbed"
    /\ UNCHANGED <<err, content, voices, tempo, tracks, tones, mix_levels,
                   max_val, audio_16bit, vc_in, vc_out, nm_in, nm_out>>

\* Normalize
Normalize ==
    /\ pc = "reverbed"
    /\ IF EmptyMax(mixed.runs)
       THEN /\ Raise("max_val: ValueError")
            /\ UNCHANGED <<mixed, max_val>>
       ELSE /\ max_val' = Peak(mixed.runs)
            /\ mixed' = Normalized(mixed, Peak(mixed.runs), content.name)
            /\ pc' = "normalized"
            /\ UNCHANGED err
    /\ UNCHANGED <<content, voices, tempo, tracks, tones, mix_levels,
                   audio_16bit, vc_in, vc_out, nm_in, nm_out>>

\* audio_16bit = np.int16(mixed * 32767)
Quantize ==
    /\ pc = "normalized"
    /\ audio_16bit' = Quantized(mixed)
    /\ pc' = "done"
    /\ UNCHANGED <<err, content, voices, tempo, tracks, tones, mixed,
                   mix_levels, max_val, vc_in, vc_out, nm_in, nm_out>>

Next ==
    \/ ParseAbcFile
    \/ GenerateVoiceTrack
    \/ PadTracks
    \/ MixTracks
    \/ Reverb
    \/ Normalize
    \/ Quantize

Spec == Init /\ [][Next]_vars

-----------------------------------------------------------------------------
(* parse_voice_content alone, on every drawn notation text.                *)

NoRun ==
    /\ err = ""
    /\ content = File(<<>>, <<>>, <<>>, <<>>, TRUE)
    /\ voices = <<>>
    /\ tempo = 0
    /\ tracks = <<>>
    /\ tones = <<>>
    /\ mixed = NoMix
    /\ mix_levels = <<>>
    /\ max_val = 0
    /\ audio_16bit = <<>>

InitVoice ==
    /\ pc = "vc_start"
    /\ vc_in \in [text : VoiceContents, base_length : BaseLengths]
    /\ vc_out = [raised |-> FALSE, notes |-> <<>>]
    /\ nm_in = <<>>
    /\ nm_out = ""
    /\ NoRun

ParseVoiceContent ==
    /\ pc = "vc_start"
    /\ vc_out' = parse_voice_content(vc_in.text, vc_in.base_length)
    /\ pc' = "vc_done"
    /\ UNCHANGED <<err, content, voices, tempo, tracks, tones, mixed,
                   mix_levels, max_val, audio_16bit, vc_in, nm_in, nm_out>>

NextVoice == ParseVoiceContent

SpecVoice == InitVoice /\ [][NextVoice]_vars

-----------------------------------------------------------------------------
(* The voice type selection alone, on every drawn name.                    *)

InitName ==
    /\ pc = "nm_start"
    /\ nm_in \in Names
    /\ nm_out = ""
    /\ vc_in = [text |-> <<>>, base_length |-> 8]
    /\ vc_out = [raised |-> FALSE, notes |-> <<>>]
    /\ NoRun

SelectVoiceType ==
    /\ pc = "nm_start"
    /\ nm_out' = VoiceType(nm_in)
    /\ pc' = "nm_done"
    /\ UNCHANGED <<err, content, voices, tempo, tracks, tones, mixed,
                   mix_levels, max_val, audio_16bit, vc_in, vc_out, nm_in>>

NextName == SelectVoiceType

SpecName == InitName /\ [][NextName]_vars

-----------------------------------------------------------------------------
(* Claims about the parser.                                                *)

\* the run has parsed its file and is not ended by an exception
Parsed == pc \notin {"start", "error"}

\* the base length parse_abc_file reads from the text
BaseLengthOf(text) == IF text.L # <<>> THEN int(text.L) ELSE 8

\* C1: parsing never raises: for every text, whatever its tempo and
\* base-length tags, parse_abc_file and parse_voice_content return a result
\* and never end in an error.
C1_ParsingNeverRaises ==
    ~(pc = "error" /\ err = "parse_voice_content: ZeroDivisionError")

\* C2: for any parsed input the render, pad, mix, reverb, normalize and
\* quantize stages run to completion: no stage ends the run with an error,
\* and the run that is done holds a sample buffer of finite length.
C2_PipelineCompletes ==
    /\ pc = "error" => err = "parse_voice_content: ZeroDivisionError"
    /\ pc = "done" => BufLen(audio_16bit) >= 0

\* C3, the classification it states: a bracketed group is a Chord, the rest
\* symbol z is a Rest, any other token found in the pitch table is a Note,
\* and a token that is none of these is dropped.
C3_Classify(m, base_length) ==
    LET beat_duration == BeatDuration(m.duration, base_length)
    IN  IF m.note_or_chord[1] = "["
        THEN <<[type |-> "chord", notes |-> parse_chord(m.note_or_chord),
                beats |-> beat_duration]>>
        ELSE IF m.note_or_chord = <<"z">>
        THEN <<[type |-> "rest", sym |-> <<"z">>, beats |-> beat_duration]>>
        ELSE IF m.note_or_chord \in DOMAIN NOTES
        THEN <<[type |-> "note", sym |-> m.note_or_chord, beats |-> beat_duration]>>
        ELSE <<>>

\* C3: parse_voice_content appends, in textual order, a Chord event for each
\* bracketed group, a Note event for each pitch symbol of the pitch table and
\* a Rest event for each rest symbol z, and drops every other token.
C3_TokensClassified ==
    pc = "vc_done" /\ ~vc_out.raised =>
        LET matches == finditer(RemoveBarLines(RemoveComments(vc_in.text, FALSE)), 1)
        IN  vc_out.notes =
                Concat([k \in 1..Len(matches) |->
                           C3_Classify(matches[k], vc_in.base_length)])

\* C4, the block it states for the voice line i: the lines after it, up to
\* the next line that starts a voice (V:<id>) or the end of the text,
\* whether or not the last one ends in a newline.
RECURSIVE C4_BlockEnd(_, _)
C4_BlockEnd(text, i) ==
    IF i <= Len(text.lines) /\ text.lines[i].tag # "V"
    THEN C4_BlockEnd(text, i + 1)
    ELSE i - 1

\* C4: the voice of every voice block holds the events of every line of its
\* block, the lines from its declaration to the next voice line or the end
\* of the text, a final line without a newline included, and of no other.
C4_BlockLinesContribute ==
    Parsed =>
        LET text == content.text
        IN  \A i \in 1..Len(text.lines) :
              /\ IsVoiceHeader(text, i)
              /\ \A j \in (i + 1)..Len(text.lines) :
                    IsVoiceHeader(text, j) => text.lines[j].id # text.lines[i].id
              => /\ int(text.lines[i].id) \in DOMAIN voices
                 /\ voices[int(text.lines[i].id)].notes =
                        parse_voice_content(
                            LinesText(text, i + 1, C4_BlockEnd(text, i + 1)),
                            BaseLengthOf(text)).notes

\* C5, the text it states: everything after the first K: line, every line
\* that starts a voice (V:<id>) removed.
C5_MelodyText(text) ==
    LET ks == {i \in 1..Len(text.lines) : text.lines[i].tag = "K"}
    IN  IF ks = {} THEN <<>>
        ELSE LET k == CHOOSE i \in ks : \A j \in ks : i <= j
             IN  Concat([n \in 1..(Len(text.lines) - k) |->
                            IF text.lines[k + n].tag = "V" THEN <<>>
                            ELSE LinesText(text, k + n, k + n)])

\* C5: when no voice block is found the result is exactly one voice, 1,
\* named Melody, with the events of the text after the K: line, stray voice
\* lines removed (no events when there is no K: line).
C5_SingleMelodyVoice ==
    Parsed /\ findall_voices(content.text, 1) = <<>> =>
        /\ DOMAIN voices = {1}
        /\ voices[1].name = Melody
        /\ voices[1].notes =
               parse_voice_content(C5_MelodyText(content.text),
                                   BaseLengthOf(content.text)).notes

\* C6, the symbols it states: each letter with all the octave markers that
\* follow it.
RECURSIVE C6_Symbols(_, _)
C6_Symbols(s, i) ==
    IF i > Len(s) THEN <<>>
    ELSE LET e == SpanEnd(s, i + 1, {",", "'"})
         IN  <<SubSeq(s, i, e)>> \o C6_Symbols(s, e + 1)

\* a chord token [s1 ... sn]k: pitch letters, each with at most two markers
C6_WellFormed(tok) ==
    LET s == SubSeq(tok, 2, Len(tok) - 1)
        syms == C6_Symbols(s, 1)
    IN  /\ s # <<>>
        /\ \A k \in 1..Len(syms) :
              /\ syms[k][1] \in NoteLetters
              /\ Len(syms[k]) <= 3

\* C6: a chord token [s1 ... sn]k parses to one Chord event whose symbols
\* are s1..sn, each a letter with all its octave markers, and whose
\* duration is k * 4 / base_length beats (k = 1 when absent).
C6_ChordSymbols ==
    pc = "vc_done" /\ ~vc_out.raised =>
        LET matches == finditer(RemoveBarLines(RemoveComments(vc_in.text, FALSE)), 1)
            IsChord(m) == m.note_or_chord[1] = "["
            IsChordEvent(ev) == ev.type = "chord"
            cm == SelectSeq(matches, IsChord)
            ce == SelectSeq(vc_out.notes, IsChordEvent)
        IN  /\ Len(ce) = Len(cm)
            /\ \A k \in 1..Len(cm) :
                  C6_WellFormed(cm[k].note_or_chord) =>
                    /\ ce[k].notes =
                         C6_Symbols(SubSeq(cm[k].note_or_chord, 2,
                                           Len(cm[k].note_or_chord) - 1), 1)
                    /\ ce[k].beats.den = vc_in.base_length
                    /\ ce[k].beats.num =
                         4 * (IF cm[k].duration = <<>> THEN 1 ELSE int(cm[k].duration))

-----------------------------------------------------------------------------
(* Claims about the voice type, the renderer and the mixer.                *)

\* C7, the precedence it states: keyword and type, first to last
C7_Precedence ==
    <<<<kw_melody, "melody">>, <<kw_chord, "chords">>, <<kw_bass, "bass">>,
      <<kw_timpani, "timpani">>, <<kw_percussion, "timpani">>,
      <<kw_snare, "snare">>, <<kw_fire, "gunshot">>,
      <<kw_impact, "explosion">>, <<kw_metal, "explosion">>>>

\* the places of C7_Precedence whose keyword occurs in the name, any case
C7_Hits(name) ==
    {i \in 1..Len(C7_Precedence) : Contains(C7_Precedence[i][1], lower(name))}

\* C7: the voice type is that of the first keyword, in the order melody,
\* chord, bass, timpani or percussion, snare, fire, impact or metal, that
\* occurs in the name in any letter case, and melody when none occurs.
C7_VoiceTypePrecedence ==
    pc = "nm_done" =>
        LET hits == C7_Hits(nm_in)
        IN  nm_out = IF hits = {} THEN "melody"
                     ELSE C7_Precedence[CHOOSE i \in hits : \A j \in hits : i <= j][2]

\* C7 witness: a name with two keywords of different types, the later one in
\* the name being the earlier in the precedence, has been given its type.
C7_Witness ==
    /\ pc = "nm_done"
    /\ Contains(kw_bass, lower(nm_in))
    /\ Contains(kw_snare, lower(nm_in))
    /\ IndexFrom(nm_in, 1, "S") < IndexFrom(nm_in, 1, "B")
    /\ nm_out = "bass"

\* the sum of f[i] over i in 1..n
RECURSIVE SumTo(_, _)
SumTo(f, n) == IF n = 0 THEN 0 ELSE f[n] + SumTo(f, n - 1)

\* the index of the last sample of each run of a buffer
RunEnds(buf) == {BufLen(SubSeq(buf, 1, k)) : k \in 1..Len(buf)}

\* C8, the table it states: intense when there are five tracks or more and
\* a sample of the track at index 4 is above 0.01 in absolute value
C8_Table ==
    IF /\ Len(tracks) >= 5
       /\ \E k \in 1..Len(tracks[5]) : Abs(tracks[5][k].v) * 100 > TrackDen
    THEN <<11, 7, 8, 6, 9>>
    ELSE <<10, 6, 7, 5, 5>>

\* C8: the mix uses the intense table [1.1, 0.7, 0.8, 0.6, 0.9] exactly
\* when there are at least five tracks and the track at index 4 peaks
\* strictly above 0.01, and the normal table [1.0, 0.6, 0.7, 0.5, 0.5]
\* otherwise; every sample of the mix is the sum of the tracks' samples,
\* track i times table[i] for i < 5 and times 0.5 for i >= 5.
C8_MixGains ==
    pc = "mixed" =>
        /\ mix_levels = C8_Table
        /\ mixed.den = TrackDen * 10
        /\ BufLen(mixed.runs) = BufLen(tracks[1])
        /\ \A t \in RunEnds(mixed.runs) \cup
                    UNION {RunEnds(tracks[i]) : i \in 1..Len(tracks)} :
              At(mixed.runs, t) =
                  SumTo([i \in 1..Len(tracks) |->
                            At(tracks[i], t) * (IF i <= 5 THEN C8_Table[i] ELSE 5)],
                        Len(tracks))

\* C8 witness: six tracks are mixed with the intense table.
C8_Witness ==
    /\ pc = "mixed"
    /\ Len(tracks) >= 6
    /\ mix_levels = <<11, 7, 8, 6, 9>>
    /\ \E k \in 1..Len(mixed.runs) : mixed.runs[k].v # 0

\* round(num / den), den > 0, halves to the even neighbour
C9_Round(num, den) ==
    LET q == num \div den
        r == num % den
    IN  IF 2 * r < den THEN q
        ELSE IF 2 * r > den THEN q + 1
        ELSE IF q % 2 = 0 THEN q ELSE q + 1

\* C9: the buffer of every event of d beats rendered at tempo T is
\* round(sample_rate * d * 60 / T) samples long, within 1 sample, whatever
\* the synthesizer; the track is the event buffers concatenated in order;
\* the tune CDEF2z2 at tempo 120 and base length 8 renders to 77175 samples.
C9_EventLengths ==
    pc \in {"parsed", "rendered"} /\ tracks # <<>> =>
        LET voice_data == voices[SortedKeys(DOMAIN voices)[Len(tracks)]]
        IN  /\ Len(tones) = Len(voice_data.notes)
            /\ \A k \in 1..Len(tones) :
                  LET b == voice_data.notes[k].beats
                  IN  Abs(BufLen(tones[k])
                          - C9_Round(44100 * b.num * 60, b.den * tempo)) <= 1
            /\ tracks[Len(tracks)] = Concat(tones)
            /\ BufLen(tracks[Len(tracks)]) =
                   SumTo([k \in 1..Len(tones) |-> BufLen(tones[k])], Len(tones))
            /\ (tempo = 120
                /\ voice_data.notes = parse_voice_content(Tune, 8).notes
                => BufLen(tracks[Len(tracks)]) = 77175)

\* C9 witness: the last rendered track holds an event whose buffer is one
\* sample short of the rounded length.
C9_Witness ==
    /\ pc = "rendered"
    /\ \E i \in 1..Len(tracks) :
          LET voice_data == voices[SortedKeys(DOMAIN voices)[i]]
          IN  /\ i = Len(tracks)
              /\ Len(tones) > 0
              /\ \E k \in 1..Len(tones) :
                    LET b == voice_data.notes[k].beats
                    IN  BufLen(tones[k]) + 1 =
                            C9_Round(44100 * b.num * 60, b.den * tempo)

\* every sample of the buffer is 0
AllZero(buf) == \A k \in 1..Len(buf) : buf[k].v = 0

\* C10: when the peak before normalization is not zero, the peak after it
\* is the ceiling, 0.6 for a file name that holds game_over in any letter
\* case and 0.85 otherwise; when the buffer before normalization is all
\* zero, normalization leaves it all zero and raises no error.
C10_NormalizedPeak ==
    /\ pc = "normalized" /\ max_val # 0 =>
          \E k \in 1..Len(mixed.runs) :
              /\ Abs(mixed.runs[k].v) * 100 =
                     mixed.den * (IF Contains(game_over, lower(content.name))
                                  THEN 60 ELSE 85)
              /\ \A j \in 1..Len(mixed.runs) :
                    Abs(mixed.runs[j].v) <= Abs(mixed.runs[k].v)
    /\ pc = "normalized" /\ max_val = 0 => AllZero(mixed.runs)
    /\ ~(pc = "error" /\ err = "max_val: ValueError" /\ AllZero(mixed.runs))

-----------------------------------------------------------------------------
(* Claims about the events' durations and the order of the tracks.         *)

\* C11: every event that parse_voice_content appends has a duration
\* strictly greater than 0 beats, whatever the text and whatever the
\* multiplier written after the token, a written 0 included.
C11_DurationsPositive ==
    pc = "vc_done" /\ ~vc_out.raised =>
        \A k \in 1..Len(vc_out.notes) :
            /\ vc_out.notes[k].beats.den > 0
            /\ vc_out.notes[k].beats.num > 0

\* the voice blocks of the text, in the order of the text
C12_Blocks == findall_voices(content.text, 1)

\* the ids the blocks declare
C12_Ids == {int(C12_Blocks[j].voice_num_str) : j \in 1..Len(C12_Blocks)}

\* the last block of the text that declares the id
C12_LastBlock(id) ==
    LET js == {j \in 1..Len(C12_Blocks) : int(C12_Blocks[j].voice_num_str) = id}
    IN  C12_Blocks[CHOOSE j \in js : \A i \in js : i <= j]

\* the rank of the id among the ids of the voices, from 1
C12_Rank(id) == Cardinality({j \in DOMAIN voices : j < id}) + 1

\* C12: the tracks are in the ascending order of the voices' ids, not in the
\* order of the blocks in the text: the track at place k is the rendering of
\* the voice whose id has rank k; and when two blocks declare one id there
\* is a single voice of that id, with the name and the events of the later
\* block, so that there are as many tracks as distinct ids.
\* (voices is written by parse_abc_file alone and is read where pc = "parsed".)
C12_TracksByAscendingId ==
    /\ pc = "parsed" /\ C12_Blocks # <<>> =>
          /\ DOMAIN voices = C12_Ids
          /\ \A id \in C12_Ids :
                /\ voices[id].name = C12_LastBlock(id).voice_name
                /\ voices[id].notes =
                       parse_voice_content(C12_LastBlock(id).voice_content,
                                           BaseLengthOf(content.text)).notes
    /\ pc \in {"parsed", "rendered"} =>
          /\ Len(tracks) <= Cardinality(DOMAIN voices)
          /\ pc = "rendered" => Len(tracks) = Cardinality(DOMAIN voices)
          /\ \A id \in DOMAIN voices :
                C12_Rank(id) <= Len(tracks) =>
                    \E w \in Levels :
                        tracks[C12_Rank(id)] =
                            generate_voice_track(voices[id], tempo,
                                                 VoiceType(voices[id].name), w).track
    /\ pc = "mixed" =>
          \A t \in RunEnds(mixed.runs) :
              At(mixed.runs, t) =
                  SumTo([k \in 1..Len(tracks) |->
                            At(tracks[k], t) * LevelOf(mix_levels, k)],
                        Len(tracks))

\* C12 witness: three blocks declare two ids, the greater id first and
\* twice; the two tracks are rendered, the first from the second block.
C12_Witness ==
    /\ pc = "rendered"
    /\ Len(C12_Blocks) = 3
    /\ int(C12_Blocks[1].voice_num_str) > int(C12_Blocks[2].voice_num_str)
    /\ int(C12_Blocks[3].voice_num_str) = int(C12_Blocks[1].voice_num_str)
    /\ Len(tracks) = 2
    /\ BufLen(tracks[1]) # BufLen(tracks[2])
    /\ voices[int(C12_Blocks[1].voice_num_str)].name = C12_Blocks[3].voice_name
    /\ C12_Blocks[3].voice_name # C12_Blocks[1].voice_name

====
